---- MODULE Spec2Model ----
(***************************************************************************)
(* Domain-wide-delegation credential resolution, CSRF token handling and   *)
(* booking internal notes of cal.com, as state machines.                   *)
(*                                                                         *)
(* JavaScript values that may be null or undefined are tagged tuples, so   *)
(* that === and truthiness are computed as the language computes them:     *)
(*   <<"null">>, <<"undefined">>, <<"number", n>>, <<"string", s>>,        *)
(*   <<"object", x>>.                                                      *)
(* Strings the code takes apart are sequences of their parts: a credential *)
(* type is the sequence of its "_"-separated segments, an email the        *)
(* sequence of its "@"-separated segments, a CSRF token a sequence of      *)
(* symbols.                                                                *)
(***************************************************************************)
EXTENDS Integers, Sequences, FiniteSets, TLC

VARIABLES
  op,        \* the operation this request ran, "init" before it has run
  args,      \* its arguments
  out,       \* what it returned or threw
  dwdMap,    \* the per-user map the batch resolver built in that call
  inputs,    \* the caller's argument objects as they are after the call
  jar,       \* CSRF: the cookies the browser holds, name to value
  res,       \* CSRF: the cookies the last response set, in order
  issued,    \* CSRF: the secret setup first gave the browser, null before
  notes,     \* the bookingInternalNote table
  dbLog      \* the database calls handleInternalNote made, in order

vars == <<op, args, out, dwdMap, inputs, jar, res, issued, notes, dbLog>>

dwdVars == <<op, args, out, dwdMap, inputs>>
csrfVars == <<jar, res, issued>>
noteVars == <<notes, dbLog>>

(***************************************************************************)
(* Bounds of the model.                                                    *)
(***************************************************************************)
MaxDwd == 2      \* longest list of delegated credentials handed to the merger
MaxStored == 2   \* longest list of stored credentials handed to the merger
MaxBatch == 2    \* largest batch of users or hosts

(***************************************************************************)
(* JavaScript values.                                                      *)
(***************************************************************************)
JsNull == <<"null">>
JsUndefined == <<"undefined">>
Num(n) == <<"number", n>>
Str(s) == <<"string", s>>
Obj(x) == <<"object", x>>
\* A string given by the sequence of its symbols.
Text(symbols) == <<"text", symbols>>
JsFalse == <<"boolean", FALSE>>

\* ToBoolean: null, undefined, 0 and "" are falsy, everything else truthy.
Truthy(v) ==
  CASE v[1] = "null" -> FALSE
    [] v[1] = "undefined" -> FALSE
    [] v[1] = "number" -> v[2] # 0
    [] v[1] = "string" -> v[2] # ""
    [] v[1] = "text" -> v[2] # <<>>
    [] v[1] = "boolean" -> v[2]
    [] OTHER -> TRUE

\* a === b on primitives: same type and same value.
StrictEq(a, b) == a = b

Returned(v) == [status |-> "returned", value |-> v]
Threw(e) == [status |-> "threw", value |-> e]

\* The least element of a non-empty set of indices.
MinOf(S) == CHOOSE i \in S : \A j \in S : i <= j

\* Array.prototype.find, given the set of indices whose element passes the
\* test: the first such element, else undefined.
FindAt(s, hits) == IF hits = {} THEN JsUndefined ELSE Obj(s[MinOf(hits)])

\* All sequences over S of length at most n.
SeqUpTo(S, n) == UNION {[1..k -> S] : k \in 0..n}

(***************************************************************************)
(* Delegation configurations and users.                                    *)
(***************************************************************************)
DwdIds == {"d1", "d2"}
Slugs == {"google", "office365"}
ServiceAccountKeys == {JsNull, Obj("sak")}

\* A row the delegation repository can return.
Configs ==
  [id : DwdIds, workspacePlatform : [slug : Slugs], enabled : BOOLEAN,
   serviceAccountKey : ServiceAccountKeys]

\* The repository found nothing.
NoDwd == [isNull |-> TRUE]

UserIds == {1, 2}
\* Emails are unique per user: id 1 is alice@x.com, id 2 is bob@y.org.
EmailOf(id) == IF id = 1 THEN <<"alice", "x.com">> ELSE <<"bob", "y.org">>
UserRefs == {[id |-> i, email |-> EmailOf(i)] : i \in UserIds}
NoUser == [isNull |-> TRUE]

googleCalendarMetadata == [type |-> <<"google", "calendar">>, slug |-> "google-calendar"]
googleMeetMetadata == [type |-> <<"google", "video">>, slug |-> "google-meet"]

\* String.prototype.endsWith("_" + word) on a type given by its segments.
EndsWithSegment(type, word) == Len(type) >= 2 /\ type[Len(type)] = word

_isConferencingCredential(credential) ==
  \/ EndsWithSegment(credential.type, "video")
  \/ EndsWithSegment(credential.type, "conferencing")
  \/ EndsWithSegment(credential.type, "messaging")

_isCalendarCredential(credential) == EndsWithSegment(credential.type, "calendar")

(***************************************************************************)
(* Credential Builder.                                                     *)
(***************************************************************************)
\* A credential: the fields of the common builder plus type and appId.
Credential(type, appId, common) ==
  [type |-> type, appId |-> appId, id |-> common.id,
   delegatedToId |-> common.delegatedToId, userId |-> common.userId,
   user |-> common.user, key |-> common.key, invalid |-> common.invalid,
   teamId |-> common.teamId, team |-> common.team,
   delegatedTo |-> common.delegatedTo]

_buildCommonUserCredential(dwd, user) ==
  [id |-> -1,
   delegatedToId |-> Str(dwd.id),
   userId |-> user.id,
   user |-> [email |-> user.email],
   key |-> [access_token |-> "NOOP_UNUSED_DELEGATION_TOKEN"],
   invalid |-> FALSE,
   teamId |-> JsNull,
   team |-> JsNull,
   delegatedTo |-> IF Truthy(dwd.serviceAccountKey)
                   THEN Obj([serviceAccountKey |-> dwd.serviceAccountKey])
                   ELSE JsNull]

\* <<>> stands for the null the builder returns for an unsupported platform,
\* <<c>> for a credential c.
_buildDwdCalendarCredential(dwd, user) ==
  IF dwd.workspacePlatform.slug # "google" THEN <<>>
  ELSE <<Credential(googleCalendarMetadata.type, googleCalendarMetadata.slug,
                    _buildCommonUserCredential(dwd, user))>>

\* Mutant: the platform is not looked at.
_buildDwdConferencingCredential_anyPlatform(dwd, user) ==
  <<Credential(googleMeetMetadata.type, googleMeetMetadata.slug,
               _buildCommonUserCredential(dwd, user))>>

_buildDwdConferencingCredential(dwd, user) ==
  IF dwd.workspacePlatform.slug # "google" THEN <<>>
  ELSE <<Credential(googleMeetMetadata.type, googleMeetMetadata.slug,
                    _buildCommonUserCredential(dwd, user))>>

\* Mutant: the conferencing credential is left out.
_buildDwdCredentials_calendarOnly(dwd, user) ==
  IF dwd = NoDwd \/ ~dwd.enabled THEN <<>>
  ELSE _buildDwdCalendarCredential(dwd, user)

\* [calendar, conferencing].filter(credential !== null)
_buildDwdCredentials(dwd, user) ==
  IF dwd = NoDwd \/ ~dwd.enabled THEN <<>>
  ELSE _buildDwdCalendarCredential(dwd, user) \o _buildDwdConferencingCredential(dwd, user)

(***************************************************************************)
(* Credential Merger.                                                      *)
(***************************************************************************)
\* clientAndServer.ts: an id is flagged as a delegated credential's when it
\* is the builder's placeholder, a negative number.
isDwdCredential(credentialId) == credentialId < 0

\* clientAndServer.ts: the normalizer of stored credentials clears the
\* delegation back-reference.
buildNonDwdCredential(credential) ==
  [credential EXCEPT !.delegatedTo = JsNull, !.delegatedToId = JsNull]

buildNonDwdCredentials(credentials) ==
  [i \in 1..Len(credentials) |-> buildNonDwdCredential(credentials[i])]

\* Mutant: a delegated credential counts as present when one of the same
\* delegation is, whatever its app.
uniqueStep_ignoresAppId(acc, credential) ==
  IF ~Truthy(credential.delegatedToId) THEN Append(acc, credential)
  ELSE IF \E i \in 1..Len(acc) : StrictEq(acc[i].delegatedToId, credential.delegatedToId)
       THEN acc ELSE Append(acc, credential)

\* One step of the reduce of buildAllCredentials.
uniqueStep(acc, credential) ==
  IF ~Truthy(credential.delegatedToId) THEN Append(acc, credential)
  ELSE LET existingDwdCredential ==
             FindAt(acc, {i \in 1..Len(acc) :
                            /\ StrictEq(acc[i].delegatedToId, credential.delegatedToId)
                            /\ acc[i].appId = credential.appId})
       IN IF ~Truthy(existingDwdCredential) THEN Append(acc, credential) ELSE acc

\* allCredentials.reduce(..., [])
RECURSIVE uniqueAllCredentials(_, _)
uniqueAllCredentials(acc, allCredentials) ==
  IF allCredentials = <<>> THEN acc
  ELSE uniqueAllCredentials(uniqueStep(acc, Head(allCredentials)), Tail(allCredentials))

\* Mutant: flagged ids are not filtered out.
nonDwdCredentials_keepsAll(existingCredentials) == existingCredentials

nonDwdCredentials(existingCredentials) ==
  LET keep(cred) == ~isDwdCredential(cred.id)
  IN SelectSeq(existingCredentials, keep)

\* Mutant: the stored credentials are not normalized.
buildAllCredentials_unnormalized(dwdCredentials, existingCredentials) ==
  uniqueAllCredentials(<<>>, dwdCredentials \o nonDwdCredentials(existingCredentials))

buildAllCredentials(dwdCredentials, existingCredentials) ==
  uniqueAllCredentials(<<>>,
    dwdCredentials \o buildNonDwdCredentials(nonDwdCredentials(existingCredentials)))

\* The delegated credentials the builder makes, for any enabled google
\* configuration and any user.
DelegatedPool ==
  {Credential(m.type, m.slug,
              _buildCommonUserCredential(
                [id |-> d, workspacePlatform |-> [slug |-> "google"],
                 enabled |-> TRUE, serviceAccountKey |-> JsNull], u)) :
     m \in {googleCalendarMetadata, googleMeetMetadata}, d \in DwdIds, u \in UserRefs}

\* A credential as a caller holds it: a row of the credentials table, or an
\* entry of an earlier enrichment.
StoredCredential(id, type, appId, delegatedToId) ==
  [type |-> type, appId |-> appId, id |-> id, delegatedToId |-> delegatedToId,
   userId |-> 1, user |-> [email |-> EmailOf(1)],
   key |-> [access_token |-> "stored"], invalid |-> FALSE,
   teamId |-> JsNull, team |-> JsNull, delegatedTo |-> JsNull]

d1Config ==
  [id |-> "d1", workspacePlatform |-> [slug |-> "google"], enabled |-> TRUE,
   serviceAccountKey |-> JsNull]

\* What existingCredentials can hold: two rows of the table (one read
\* without the back-reference column), a row carrying a back-reference, and
\* the calendar credential an earlier enrichment put there.
StoredPool ==
  {StoredCredential(1, <<"google", "calendar">>, "google-calendar", JsNull),
   StoredCredential(2, <<"zoom", "video">>, "zoom", JsUndefined),
   StoredCredential(3, <<"google", "calendar">>, "google-calendar", Str("d1")),
   Head(_buildDwdCalendarCredential(d1Config, [id |-> 1, email |-> EmailOf(1)]))}

(***************************************************************************)
(* Per-organization resolver and user/host enrichment.                     *)
(***************************************************************************)
\* Map.prototype.set
MapSet(m, k, v) == [x \in DOMAIN m \cup {k} |-> IF x = k THEN v ELSE m[x]]

\* dwdCredentialsMap.get(id) ?? []
MapGetOrEmpty(m, k) == IF k \in DOMAIN m THEN m[k] ELSE <<>>

\* for (const user of users) credentialsByUserId.set(user.id, ...)
RECURSIVE credentialsByUserId(_, _, _)
credentialsByUserId(m, dwd, users) ==
  IF users = <<>> THEN m
  ELSE credentialsByUserId(
         MapSet(m, Head(users).id, _buildDwdCredentials(dwd, Head(users))),
         dwd, Tail(users))

\* users[0].email.split("@")[1]; reading .email of users[0] throws a
\* TypeError when the batch is empty.
domainOfFirst(users) == users[1].email[2]

\* dwd is what the repository returns for the organization and the domain of
\* the first user.
_getDwdCredentialsMapPerUser(organizationId, users, dwd) ==
  IF ~Truthy(organizationId) THEN Returned(<<>>)
  ELSE IF users = <<>> THEN Threw("TypeError")
  ELSE IF dwd = NoDwd \/ ~dwd.enabled THEN Returned(<<>>)
  ELSE Returned(credentialsByUserId(<<>>, dwd, users))

\* Mutant: the record is rebuilt from the fields enrichment needs only.
withCredentials_dropsRest(user, enrichedCredentials) ==
  [id |-> user.id, email |-> user.email, credentials |-> enrichedCredentials]

\* const { credentials, ...rest } = user; { ...rest, credentials: enriched }
withCredentials(user, enrichedCredentials) ==
  [user EXCEPT !.credentials = enrichedCredentials]

enrichUsersWithDwdCredentials(orgId, users, dwd) ==
  LET dwdCredentialsMap == _getDwdCredentialsMapPerUser(orgId, users, dwd)
  IN IF dwdCredentialsMap.status = "threw" THEN dwdCredentialsMap
     ELSE Returned(
       [i \in 1..Len(users) |->
          withCredentials(users[i],
            buildAllCredentials(MapGetOrEmpty(dwdCredentialsMap.value, users[i].id),
                                users[i].credentials))])

\* { ...host, user: { ...restUser, credentials: ... } }
withUser(host, enrichedUser) == [host EXCEPT !.user = enrichedUser]

enrichHostsWithDwdCredentials(orgId, hosts, dwd) ==
  LET dwdCredentialsMap ==
        _getDwdCredentialsMapPerUser(orgId, [i \in 1..Len(hosts) |-> hosts[i].user], dwd)
  IN IF dwdCredentialsMap.status = "threw" THEN dwdCredentialsMap
     ELSE Returned(
       [i \in 1..Len(hosts) |->
          withUser(hosts[i],
            withCredentials(hosts[i].user,
              buildAllCredentials(
                MapGetOrEmpty(dwdCredentialsMap.value, hosts[i].user.id),
                hosts[i].user.credentials)))])

enrichUserWithDwdCredentialsWithoutOrgId(user, dwd) ==
  withCredentials(user,
    buildAllCredentials(_buildDwdCredentials(dwd, user), user.credentials))

\* The argument objects after an enrichment call: the code reads them and
\* assigns to none of them.
argumentsAfterEnrich(records, enriched) == records

\* The credential lists a user record can carry into an enrichment.
CredentialLists ==
  {<<>>,
   <<StoredCredential(1, <<"google", "calendar">>, "google-calendar", JsNull)>>,
   <<Head(_buildDwdCalendarCredential(d1Config, [id |-> 1, email |-> EmailOf(1)])),
     StoredCredential(2, <<"zoom", "video">>, "zoom", JsUndefined)>>}

\* User-shaped records: the fields enrichment needs and two it does not.
UserPool ==
  {[id |-> i, email |-> EmailOf(i), credentials |-> cs,
    name |-> IF i = 1 THEN "Alice" ELSE "Bob", timeZone |-> "Europe/London"] :
     i \in UserIds, cs \in CredentialLists}

\* Host-shaped records wrapping a user.
HostPool == {[user |-> u, isFixed |-> u.id = 1, priority |-> u.id] : u \in UserPool}

OrgIds == {JsNull, Num(1)}

(***************************************************************************)
(* Credential lookup utilities.                                            *)
(***************************************************************************)
\* found is what CredentialRepository.findCredentialForCalendarServiceById
\* returns for id.credentialId.
getDwdOrFindRegularCredential(id, dwdCredentials, found) ==
  IF Truthy(id.domainWideDelegationCredentialId)
  THEN FindAt(dwdCredentials,
              {i \in 1..Len(dwdCredentials) :
                 StrictEq(dwdCredentials[i].delegatedToId,
                          id.domainWideDelegationCredentialId)})
  ELSE IF Truthy(id.credentialId) THEN found
  ELSE JsNull

\* Mutant: the ids are compared without asking whether they are set.
matchesId_nullEqualsNull(cred, id) ==
  \/ StrictEq(cred.delegatedToId, id.dwdId)
  \/ StrictEq(Num(cred.id), id.credentialId)

\* The callback of credentials.find in getDwdOrRegularCredential.
matchesId(cred, id) ==
  IF Truthy(cred.delegatedToId) THEN StrictEq(cred.delegatedToId, id.dwdId)
  ELSE IF Truthy(id.credentialId) THEN StrictEq(Num(cred.id), id.credentialId)
  ELSE FALSE

getDwdOrRegularCredential(credentials, id) ==
  LET found == FindAt(credentials,
                      {i \in 1..Len(credentials) : matchesId(credentials[i], id)})
  IN IF Truthy(found) THEN found ELSE JsNull

\* The rows of the credentials table: stored credentials, which carry no
\* delegation back-reference.
CredentialTable == {buildNonDwdCredential(c) : c \in {x \in StoredPool : x.id > 0}}

\* findCredentialForCalendarServiceById: the row with that id, or null.
FindByIdResults(credentialId) ==
  {Obj(r) : r \in {x \in CredentialTable : Num(x.id) = credentialId}} \cup {JsNull}

\* The credentials a lookup searches: delegated ones and stored ones, one of
\* them read without the back-reference field.
LookupPool ==
  {c \in DelegatedPool : c.userId = 1 /\ (c.delegatedToId = Str("d1") \/ _isCalendarCredential(c))}
  \cup {StoredCredential(1, <<"google", "calendar">>, "google-calendar", JsNull),
        StoredCredential(2, <<"zoom", "video">>, "zoom", JsUndefined)}

CredentialIdArgs == {JsNull, JsUndefined, Num(-1), Num(1), Num(2)}
DwdIdArgs == {JsNull, JsUndefined} \cup {Str(d) : d \in DwdIds}

(***************************************************************************)
(* CSRF token manager (RealCSRF).                                          *)
(*                                                                         *)
(* A string is the sequence of its symbols: single characters, and one     *)
(* symbol for a whole digest. The sha1 digest is base64url without         *)
(* padding and the HMAC base64; the symbol of a digest names what was      *)
(* digested, so two digests are equal exactly when their inputs are. A     *)
(* cookie header is the sequence of its <<name, value>> pairs.             *)
(***************************************************************************)
secretCookieName == "csrfSecret"
tokenCookieName == "XSRF-TOKEN"

\* this.secret, process.env.NEXTAUTH_SECRET.
ServerSecret == "K"

\* The characters of a string of symbols, run together.
RECURSIVE Join(_)
Join(str) == IF str = <<>> THEN "" ELSE Head(str) \o Join(Tail(str))

\* createHash("sha1").update(str).digest("base64"), made URL-safe.
hash(str) == "sha1(" \o Join(str) \o ")"

tokenize(secret, salt) == salt \o <<"-">> \o <<hash(salt \o <<"-">> \o secret)>>

\* String.prototype.indexOf and lastIndexOf: 0-based, -1 when absent.
IndexOf(str, ch) ==
  LET at == {i \in 1..Len(str) : str[i] = ch}
  IN IF at = {} THEN -1 ELSE MinOf(at) - 1

LastIndexOf(str, ch) ==
  LET at == {i \in 1..Len(str) : str[i] = ch}
  IN IF at = {} THEN -1 ELSE (CHOOSE i \in at : \A j \in at : j <= i) - 1

\* str.slice(0, end) and str.substr(0, end); a negative end counts from the
\* end of the string.
SliceTo(str, end) ==
  IF end >= 0 THEN SubSeq(str, 1, end) ELSE SubSeq(str, 1, Len(str) + end)

\* Mutant: the token's hash is not compared.
verifyToken_anySecret(secret, token) == IndexOf(token, "-") # -1

verifyToken(secret, token) ==
  LET index == IndexOf(token, "-")
  IN IF index = -1 THEN FALSE
     ELSE LET salt == SliceTo(token, index)
              expected == tokenize(secret, salt)
          IN token = expected

\* crypto.createHmac("sha256", secret).update(val).digest("base64")
hmac(val, secret) == "hmac(" \o Join(val) \o "," \o secret \o ")"

\* cookie-signature: val + "." + HMAC-SHA256(val, secret).
sign(val, secret) == val \o <<".">> \o <<hmac(val, secret)>>

\* cookie-signature: the part before the last "." when the whole input is
\* what signing that part gives, else false.
unsign(input, secret) ==
  LET tentativeValue == SliceTo(input, LastIndexOf(input, "."))
  IN IF sign(tentativeValue, secret) = input THEN Text(tentativeValue) ELSE JsFalse

\* cookie.parse: name to value, the first pair of a name winning.
parse(pairs) ==
  [n \in {pairs[i][1] : i \in 1..Len(pairs)} |->
     pairs[MinOf({i \in 1..Len(pairs) : pairs[i][1] = n})][2]]

\* cookie[name]
CookieGet(cookie, name) ==
  IF name \in DOMAIN cookie THEN Text(cookie[name]) ELSE JsUndefined

\* String.prototype.toLowerCase on the cookie names in use.
ToLowerCase(name) == IF name = "csrfSecret" THEN "csrfsecret" ELSE name

\* fresh is what uid.sync(18) gives.
getSecret(header, fresh) ==
  IF Truthy(header)
  THEN LET secret == CookieGet(parse(header[2]), ToLowerCase(secretCookieName))
       IN IF Truthy(secret) THEN secret[2] ELSE fresh
  ELSE fresh

\* createToken with the salt randomBytes(32) gives.
createToken(secret, salt) == tokenize(secret, salt)

\* serialize(name, value, cookieOptions): the pair a browser stores.
serialize(name, value) == <<name, value>>

\* The cookies setup sets. kind is the shape of the response object: one
\* with setHeader (pages router), else one with cookies (app router).
setup(header, kind, fresh, salt) ==
  LET csrfSecret == getSecret(header, fresh)
      unsignedToken == createToken(csrfSecret, salt)
      token == sign(unsignedToken, ServerSecret)
  IN IF kind = "setHeader"
     THEN Returned(<<serialize(secretCookieName, csrfSecret),
                     serialize(tokenCookieName, token)>>)
     ELSE IF kind = "cookies"
     THEN Returned(<<serialize(secretCookieName, csrfSecret)>>
                   \o <<serialize(tokenCookieName, token)>>)
     ELSE Returned(<<>>)

InvalidCSRFError == [name |-> "InvalidCSRFError", statusCode |-> 403]

\* The cookies verify sets, or the error it throws.
verify(header, salt) ==
  IF header = JsUndefined THEN Threw(InvalidCSRFError)
  ELSE
    LET cookie == parse(header[2])
        token == CookieGet(cookie, tokenCookieName)
        csrfSecret == CookieGet(cookie, secretCookieName)
    IN IF ~Truthy(token) \/ ~Truthy(csrfSecret) THEN Threw(InvalidCSRFError)
       ELSE
         LET unsignedToken == unsign(token[2], ServerSecret)
         IN IF ~Truthy(unsignedToken) THEN Threw(InvalidCSRFError)
            ELSE IF ~verifyToken(csrfSecret[2], unsignedToken[2])
            THEN Threw(InvalidCSRFError)
            ELSE Returned(<<serialize(tokenCookieName,
                              sign(createToken(csrfSecret[2], salt), ServerSecret))>>)

\* What randomBytes(32).toString("hex") and uid.sync(18) can give; uid-safe
\* values are base64url and may hold a "-".
Salts == {<<"a">>, <<"b">>}
Secrets == {<<"p">>, <<"q", "-", "r">>}

\* The Cookie header a browser sends for its jar: none when the jar is
\* empty.
BrowserHeader(cookies) ==
  IF DOMAIN cookies = {} THEN JsUndefined
  ELSE Text((IF secretCookieName \in DOMAIN cookies
             THEN <<<<secretCookieName, cookies[secretCookieName]>>>> ELSE <<>>)
            \o (IF tokenCookieName \in DOMAIN cookies
                THEN <<<<tokenCookieName, cookies[tokenCookieName]>>>> ELSE <<>>))

\* A browser stores the cookies a response sets.
RECURSIVE StoreCookies(_, _)
StoreCookies(cookies, setCookie) ==
  IF setCookie = <<>> THEN cookies
  ELSE StoreCookies(MapSet(cookies, Head(setCookie)[1], Head(setCookie)[2]),
                    Tail(setCookie))

\* Token cookies another client can send: tokens the server signed, a token
\* signed with another key, a signed token whose salt was altered, and text
\* that is no signed token.
ForeignTokens ==
  {sign(tokenize(k, <<"a">>), ServerSecret) : k \in Secrets}
  \cup {sign(tokenize(<<"p">>, <<"b">>), ServerSecret),
        sign(tokenize(<<"p">>, <<"a">>), "X"),
        tokenize(<<"p">>, <<"b">>) \o <<".">>
          \o <<hmac(tokenize(<<"p">>, <<"a">>), ServerSecret)>>,
        tokenize(<<"p">>, <<"a">>),
        <<>>}

\* Cookie headers another client can send.
ForeignHeaders ==
  {JsUndefined, Text(<<>>)}
  \cup {Text(<<<<secretCookieName, k>>>>) : k \in Secrets}
  \cup {Text(<<<<tokenCookieName, t>>>>) : t \in ForeignTokens}
  \cup {Text(<<<<secretCookieName, k>>, <<tokenCookieName, t>>>>) :
          k \in Secrets \cup {<<>>}, t \in ForeignTokens}
  \cup {Text(<<<<ToLowerCase(secretCookieName), k>>>>) : k \in Secrets}

(***************************************************************************)
(* Internal note writer.                                                   *)
(***************************************************************************)
\* The rows of internalNotePreset.
PresetTable == {[id |-> 1, teamId |-> 1], [id |-> 2, teamId |-> 2]}

\* Mutant: the preset is looked up by id alone.
findFirstOrThrow_anyTeam(teamId, id) ==
  LET rows == {row \in PresetTable : row.id = id}
  IN IF rows = {} THEN Threw([name |-> "NotFoundError", statusCode |-> 404])
     ELSE Returned(CHOOSE row \in rows : TRUE)

\* prisma findFirstOrThrow({ where: { teamid: teamId, id } }): the first
\* matching row, or a not-found error. A where field that is undefined is
\* no condition; null matches only a null column, and no row has one.
findFirstOrThrow(teamId, id) ==
  LET rows == {row \in PresetTable :
                 /\ teamId = JsUndefined \/ Num(row.teamId) = teamId
                 /\ row.id = id}
  IN IF rows = {} THEN Threw([name |-> "NotFoundError", statusCode |-> 404])
     ELSE Returned(CHOOSE row \in rows : TRUE)

\* booking.eventType.owner?.id
ownerId(owner) == IF owner = JsNull \/ owner = JsUndefined THEN JsUndefined ELSE owner[2].id

\* The result, the note table and the database calls of one call.
handleInternalNote(internalNote, booking, userId, teamId, table) ==
  LET hosts == booking.eventType.hosts
      userIsHost == FindAt(hosts, {i \in 1..Len(hosts) : hosts[i].user.id = userId})
      userIsOwnerOfEventType == StrictEq(ownerId(booking.eventType.owner), Num(userId))
      freeform == [bookingId |-> booking.id, text |-> internalNote.value,
                   notePresetId |-> JsNull, createdBy |-> userId]
      preset == [bookingId |-> booking.id, text |-> JsUndefined,
                 notePresetId |-> Num(internalNote.id), createdBy |-> userId]
  IN IF ~Truthy(userIsHost) /\ ~userIsOwnerOfEventType
     THEN [out |-> Threw([name |-> "HttpError", statusCode |-> 403]),
           notes |-> table, dbLog |-> <<>>]
     ELSE IF internalNote.id = -1
     THEN [out |-> Returned(freeform), notes |-> Append(table, freeform),
           dbLog |-> <<"bookingInternalNote.create">>]
     ELSE LET found == findFirstOrThrow(teamId, internalNote.id)
          IN IF found.status = "threw"
             THEN [out |-> found, notes |-> table,
                   dbLog |-> <<"internalNotePreset.findFirstOrThrow">>]
             ELSE [out |-> Returned(preset), notes |-> Append(table, preset),
                   dbLog |-> <<"internalNotePreset.findFirstOrThrow",
                               "bookingInternalNote.create">>]

InternalNotes ==
  [id : {-1, 1, 2, 9}, name : {"note"}, value : {JsUndefined, Str("called back")}]

Owners == {JsUndefined, JsNull, Obj([id |-> JsNull]), Obj([id |-> Num(2)])}

Bookings ==
  [id : {7},
   eventType : [hosts : {<<>>, <<[user |-> [id |-> 1]]>>,
                         <<[user |-> [id |-> 3]], [user |-> [id |-> 1]]>>},
                owner : Owners]]

NoteUserIds == {1, 2, 3}
TeamIdArgs == {JsUndefined, JsNull, Num(1), Num(2)}

\* The note of an earlier call.
EarlierNote ==
  [bookingId |-> 7, text |-> Str("first"), notePresetId |-> JsNull, createdBy |-> 1]

(***************************************************************************)
(* Initial state.                                                          *)
(***************************************************************************)
Init ==
  /\ op = "init"
  /\ args = <<>>
  /\ out = Returned(<<>>)
  /\ dwdMap = Returned(<<>>)
  /\ inputs = <<>>
  /\ jar = <<>>
  /\ res = Returned(<<>>)
  /\ issued = JsNull
  /\ notes = <<>>
  /\ dbLog = <<>>

(***************************************************************************)
(* Single-user resolution.                                                 *)
(***************************************************************************)
\* The repository looks the configuration up by the member's email: any row,
\* or none.
getAllDwdCredentialsForUser ==
  /\ op = "init"
  /\ \E user \in UserRefs, dwd \in Configs \cup {NoDwd} :
       /\ op' = "getAllDwdCredentialsForUser"
       /\ args' = [user |-> user, dwd |-> dwd]
       /\ out' = Returned(_buildDwdCredentials(dwd, user))
       /\ dwdMap' = Returned(<<>>)
       /\ inputs' = <<>>
       /\ UNCHANGED <<csrfVars, noteVars>>

\* findById returns the row with that id or none; the user repository the
\* user with that id or none.
findDwdCredentials ==
  /\ op = "init"
  /\ \E userId \in UserIds, dwdId \in DwdIds :
     \E dwd \in {c \in Configs : c.id = dwdId} \cup {NoDwd},
        user \in {u \in UserRefs : u.id = userId} \cup {NoUser} :
       /\ op' = "findDwdCredentials"
       /\ args' = [userId |-> userId, dwdId |-> dwdId, dwd |-> dwd, user |-> user]
       /\ out' = IF user = NoUser THEN Returned(<<>>)
                 ELSE Returned(_buildDwdCredentials(dwd, user))
       /\ dwdMap' = Returned(<<>>)
       /\ inputs' = <<>>
       /\ UNCHANGED <<csrfVars, noteVars>>

(***************************************************************************)
(* The merger, called once and called again on its own result.             *)
(***************************************************************************)
buildAllCredentialsCall ==
  /\ op = "init"
  /\ \E D \in SeqUpTo(DelegatedPool, MaxDwd), S \in SeqUpTo(StoredPool, MaxStored) :
       /\ op' = "buildAllCredentials"
       /\ args' = [dwdCredentials |-> D, existingCredentials |-> S]
       /\ out' = Returned(buildAllCredentials(D, S))
       /\ dwdMap' = Returned(<<>>)
       /\ inputs' = <<>>
       /\ UNCHANGED <<csrfVars, noteVars>>

\* A second enrichment of an already enriched list: the same delegated
\* credentials, merged into the first merge's result.
mergeAgain ==
  /\ op = "buildAllCredentials"
  /\ op' = "mergeAgain"
  /\ args' = [dwdCredentials |-> args.dwdCredentials,
              existingCredentials |-> out.value, first |-> out.value]
  /\ out' = Returned(buildAllCredentials(args.dwdCredentials, out.value))
  /\ UNCHANGED <<dwdMap, inputs, csrfVars, noteVars>>

\* The delegated list supplied twice over.
mergeTwiceOver ==
  /\ op = "buildAllCredentials"
  /\ op' = "mergeTwiceOver"
  /\ args' = [dwdCredentials |-> args.dwdCredentials \o args.dwdCredentials,
              existingCredentials |-> args.existingCredentials, first |-> out.value]
  /\ out' = Returned(buildAllCredentials(args.dwdCredentials \o args.dwdCredentials,
                                         args.existingCredentials))
  /\ UNCHANGED <<dwdMap, inputs, csrfVars, noteVars>>

(***************************************************************************)
(* Enrichment calls.                                                       *)
(***************************************************************************)
enrichUsersCall ==
  /\ op = "init"
  /\ \E orgId \in OrgIds, users \in SeqUpTo(UserPool, MaxBatch),
        dwd \in Configs \cup {NoDwd} :
       LET m == _getDwdCredentialsMapPerUser(orgId, users, dwd)
           r == enrichUsersWithDwdCredentials(orgId, users, dwd)
       IN /\ op' = "enrichUsersWithDwdCredentials"
          /\ args' = [orgId |-> orgId, users |-> users, dwd |-> dwd,
                      domain |-> IF Truthy(orgId) /\ users # <<>>
                                 THEN Str(domainOfFirst(users)) ELSE JsUndefined]
          /\ out' = r
          /\ dwdMap' = m
          /\ inputs' = argumentsAfterEnrich(users, r)
          /\ UNCHANGED <<csrfVars, noteVars>>

enrichHostsCall ==
  /\ op = "init"
  /\ \E orgId \in OrgIds, hosts \in SeqUpTo(HostPool, MaxBatch),
        dwd \in Configs \cup {NoDwd} :
       LET m == _getDwdCredentialsMapPerUser(orgId, [i \in 1..Len(hosts) |-> hosts[i].user], dwd)
           r == enrichHostsWithDwdCredentials(orgId, hosts, dwd)
       IN /\ op' = "enrichHostsWithDwdCredentials"
          /\ args' = [orgId |-> orgId, hosts |-> hosts, dwd |-> dwd,
                      domain |-> IF Truthy(orgId) /\ hosts # <<>>
                                 THEN Str(domainOfFirst([i \in 1..Len(hosts) |-> hosts[i].user]))
                                 ELSE JsUndefined]
          /\ out' = r
          /\ dwdMap' = m
          /\ inputs' = argumentsAfterEnrich(hosts, r)
          /\ UNCHANGED <<csrfVars, noteVars>>

enrichUserWithoutOrgIdCall ==
  /\ op = "init"
  /\ \E user \in UserPool, dwd \in Configs \cup {NoDwd} :
       LET r == Returned(enrichUserWithDwdCredentialsWithoutOrgId(user, dwd))
       IN /\ op' = "enrichUserWithDwdCredentialsWithoutOrgId"
          /\ args' = [user |-> user, dwd |-> dwd]
          /\ out' = r
          /\ dwdMap' = Returned(<<>>)
          /\ inputs' = argumentsAfterEnrich(user, r)
          /\ UNCHANGED <<csrfVars, noteVars>>

(***************************************************************************)
(* Lookup calls.                                                           *)
(***************************************************************************)
getDwdOrFindRegularCredentialCall ==
  /\ op = "init"
  /\ \E credentialId \in CredentialIdArgs, dwdId \in DwdIdArgs,
        dwdCredentials \in SeqUpTo(LookupPool, MaxDwd) :
     \E found \in FindByIdResults(credentialId) :
       /\ op' = "getDwdOrFindRegularCredential"
       /\ args' = [credentialId |-> credentialId, dwdId |-> dwdId,
                   credentials |-> dwdCredentials, found |-> found]
       /\ out' = Returned(getDwdOrFindRegularCredential(
                    [credentialId |-> credentialId,
                     domainWideDelegationCredentialId |-> dwdId],
                    dwdCredentials, found))
       /\ dwdMap' = Returned(<<>>)
       /\ inputs' = <<>>
       /\ UNCHANGED <<csrfVars, noteVars>>

getDwdOrRegularCredentialCall ==
  /\ op = "init"
  /\ \E credentialId \in CredentialIdArgs, dwdId \in DwdIdArgs,
        credentials \in SeqUpTo(LookupPool, MaxDwd) :
       /\ op' = "getDwdOrRegularCredential"
       /\ args' = [credentialId |-> credentialId, dwdId |-> dwdId,
                   credentials |-> credentials, found |-> JsNull]
       /\ out' = Returned(getDwdOrRegularCredential(
                    credentials, [credentialId |-> credentialId, dwdId |-> dwdId]))
       /\ dwdMap' = Returned(<<>>)
       /\ inputs' = <<>>
       /\ UNCHANGED <<csrfVars, noteVars>>

(***************************************************************************)
(* CSRF requests: from the browser, which sends its jar and stores what    *)
(* the response sets, or from another client, which sends what it likes.   *)
(***************************************************************************)
setupRequest ==
  \E who \in {"browser", "other"}, kind \in {"setHeader", "cookies"},
     fresh \in Secrets, salt \in Salts :
  \E header \in IF who = "browser" THEN {BrowserHeader(jar)} ELSE ForeignHeaders :
    LET r == setup(header, kind, fresh, salt)
    IN /\ op' = "setup"
       /\ args' = [who |-> who, header |-> header, kind |-> kind]
       /\ out' = Returned(<<>>)
       /\ res' = r
       /\ jar' = IF who = "browser" THEN StoreCookies(jar, r.value) ELSE jar
       /\ issued' = IF who = "browser" /\ issued = JsNull
                    THEN Text(parse(r.value)[secretCookieName]) ELSE issued
       /\ UNCHANGED <<dwdMap, inputs, noteVars>>

verifyRequest ==
  \E who \in {"browser", "other"}, salt \in Salts :
  \E header \in IF who = "browser" THEN {BrowserHeader(jar)} ELSE ForeignHeaders :
    LET r == verify(header, salt)
    IN /\ op' = "verify"
       /\ args' = [who |-> who, header |-> header, kind |-> "setHeader"]
       /\ out' = IF r.status = "threw" THEN r ELSE Returned(<<>>)
       /\ res' = IF r.status = "threw" THEN Returned(<<>>) ELSE r
       /\ jar' = IF who = "browser" /\ r.status = "returned"
                 THEN StoreCookies(jar, r.value) ELSE jar
       /\ UNCHANGED <<issued, dwdMap, inputs, noteVars>>

NextCSRF ==
  \/ setupRequest
  \/ verifyRequest

SpecCSRF == Init /\ [][NextCSRF]_vars

(***************************************************************************)
(* Internal note requests, on a table that is empty or holds one note.     *)
(***************************************************************************)
InitNotes ==
  /\ op = "init"
  /\ args = <<>>
  /\ out = Returned(<<>>)
  /\ dwdMap = Returned(<<>>)
  /\ inputs = <<>>
  /\ jar = <<>>
  /\ res = Returned(<<>>)
  /\ issued = JsNull
  /\ notes \in {<<>>, <<EarlierNote>>}
  /\ dbLog = <<>>

handleInternalNoteCall ==
  /\ op = "init"
  /\ \E internalNote \in InternalNotes, booking \in Bookings,
        userId \in NoteUserIds, teamId \in TeamIdArgs :
       LET r == handleInternalNote(internalNote, booking, userId, teamId, notes)
       IN /\ op' = "handleInternalNote"
          /\ args' = [internalNote |-> internalNote, booking |-> booking,
                      userId |-> userId, teamId |-> teamId, notesBefore |-> notes]
          /\ out' = r.out
          /\ notes' = r.notes
          /\ dbLog' = r.dbLog
          /\ UNCHANGED <<dwdMap, inputs, csrfVars>>

NextNotes == handleInternalNoteCall

SpecNotes == InitNotes /\ [][NextNotes]_vars

Next ==
  \/ getAllDwdCredentialsForUser
  \/ findDwdCredentials
  \/ buildAllCredentialsCall
  \/ mergeAgain
  \/ mergeTwiceOver
  \/ enrichUsersCall
  \/ enrichHostsCall
  \/ enrichUserWithoutOrgIdCall
  \/ getDwdOrFindRegularCredentialCall
  \/ getDwdOrRegularCredentialCall

Spec == Init /\ [][Next]_vars

(***************************************************************************)
(* Slots input: end-time normalization.  An ISO text is the fields it      *)
(* spells and its zone designator; a DateTime is an instant (milliseconds  *)
(* since the epoch) in the zone utc, or invalid.                           *)
(***************************************************************************)
MsPerSecond == 1000
MsPerMinute == 60 * MsPerSecond
MsPerHour == 60 * MsPerMinute
MsPerDay == 24 * MsPerHour

IsLeapYear(y) == y % 4 = 0 /\ (y % 100 # 0 \/ y % 400 = 0)

DaysInMonth(y, m) ==
  IF m = 2 THEN (IF IsLeapYear(y) THEN 29 ELSE 28)
  ELSE IF m \in {4, 6, 9, 11} THEN 30 ELSE 31

\* Days from 1970-01-01 to the civil date y-m-d.
DaysFromCivil(y, m, d) ==
  LET yy == IF m <= 2 THEN y - 1 ELSE y
      era == yy \div 400
      yoe == yy - era * 400
      mp == IF m > 2 THEN m - 3 ELSE m + 9
      doy == (153 * mp + 2) \div 5 + d - 1
      doe == yoe * 365 + yoe \div 4 - yoe \div 100 + doy
  IN era * 146097 + doe - 719468

\* The civil date of a day number.
CivilFromDays(days) ==
  LET z == days + 719468
      era == z \div 146097
      doe == z - era * 146097
      yoe == (doe - doe \div 1460 + doe \div 36524 - doe \div 146096) \div 365
      doy == doe - (365 * yoe + yoe \div 4 - yoe \div 100)
      mp == (5 * doy + 2) \div 153
      d == doy - (153 * mp + 2) \div 5 + 1
      m == IF mp < 10 THEN mp + 3 ELSE mp - 9
  IN [year |-> yoe + era * 400 + (IF m <= 2 THEN 1 ELSE 0), month |-> m, day |-> d]

IsoText(y, m, d, h, mi, sec, ms, designator, offset) ==
  [year |-> y, month |-> m, day |-> d, hour |-> h, minute |-> mi,
   second |-> sec, millisecond |-> ms, designator |-> designator, offset |-> offset]

\* A timestamp: day * MsPerDay + ms with 0 <= ms < MsPerDay, kept as the two
\* digits so that no product leaves the integers at hand.
Timestamp(day, ms) == [day |-> day + ms \div MsPerDay, ms |-> ms % MsPerDay]

InvalidDateTime == [invalid |-> TRUE, ts |-> Timestamp(0, 0)]

\* DateTime.fromISO(text, { zone: "utc" }): fields out of range give an
\* invalid DateTime; a text with an offset is the instant it names, a text
\* without one is read in the zone utc.
fromISO(text) ==
  IF \/ text.month \notin 1..12
     \/ text.day \notin 1..DaysInMonth(text.year, text.month)
     \/ text.hour \notin 0..23 \/ text.minute \notin 0..59 \/ text.second \notin 0..59
  THEN InvalidDateTime
  ELSE [invalid |-> FALSE,
        ts |-> Timestamp(DaysFromCivil(text.year, text.month, text.day),
                         text.hour * MsPerHour + text.minute * MsPerMinute
                         + text.second * MsPerSecond + text.millisecond
                         - text.offset * MsPerMinute)]

\* The getters of a DateTime in the zone utc.
dayOf(dateTime) == dateTime.ts.day
hourOf(dateTime) == dateTime.ts.ms \div MsPerHour
minuteOf(dateTime) == (dateTime.ts.ms % MsPerHour) \div MsPerMinute
secondOf(dateTime) == (dateTime.ts.ms % MsPerMinute) \div MsPerSecond
millisecondOf(dateTime) == dateTime.ts.ms % MsPerSecond

\* dateTime.set({ hour, minute, second }): the other units stay.
setTime(dateTime, h, mi, sec) ==
  [invalid |-> FALSE,
   ts |-> Timestamp(dayOf(dateTime),
                    h * MsPerHour + mi * MsPerMinute + sec * MsPerSecond
                    + millisecondOf(dateTime))]

\* dateTime.toISO(): null for an invalid DateTime, else the utc fields and Z.
toISO(dateTime) ==
  IF dateTime.invalid THEN JsNull
  ELSE LET date == CivilFromDays(dayOf(dateTime))
       IN Str(IsoText(date.year, date.month, date.day, hourOf(dateTime),
                      minuteOf(dateTime), secondOf(dateTime),
                      millisecondOf(dateTime), "Z", 0))

adjustEndTime_hourOnly(endTime) ==
  LET dateTime == fromISO(endTime)
  IN IF ~dateTime.invalid /\ hourOf(dateTime) = 0
     THEN toISO(setTime(dateTime, 23, 59, 59))
     ELSE toISO(dateTime)

\* An invalid DateTime has NaN units, which are not === 0.
adjustEndTime(endTime) ==
  LET dateTime == fromISO(endTime)
  IN IF /\ ~dateTime.invalid
        /\ hourOf(dateTime) = 0 /\ minuteOf(dateTime) = 0 /\ secondOf(dateTime) = 0
     THEN toISO(setTime(dateTime, 23, 59, 59))
     ELSE toISO(dateTime)

\* The end timestamps a query can carry: dates at year, month and leap-day
\* borders, two that no calendar has, and the three ways to name the zone.
EndDates ==
  {<<2023, 12, 31>>, <<2024, 1, 1>>, <<2024, 2, 29>>, <<2024, 3, 1>>,
   <<2023, 2, 29>>, <<2024, 13, 1>>}
EndHours == {0, 1, 2, 10, 23}
EndMinutes == {0, 30, 59}
EndSeconds == {0, 59}
EndMilliseconds == {0, 500}
EndZones == {<<"Z", 0>>, <<"none", 0>>, <<"offset", 120>>, <<"offset", -60>>,
             <<"offset", 330>>}

adjustEndTimeCall ==
  /\ op = "init"
  /\ \E date \in EndDates, h \in EndHours, mi \in EndMinutes, sec \in EndSeconds,
        ms \in EndMilliseconds, zone \in EndZones :
       LET endTime == IsoText(date[1], date[2], date[3], h, mi, sec, ms, zone[1], zone[2])
       IN /\ op' = "adjustEndTime"
          /\ args' = [endTime |-> endTime]
          /\ out' = Returned(adjustEndTime(endTime))
          /\ UNCHANGED <<dwdMap, inputs, csrfVars, noteVars>>

NextSlots == adjustEndTimeCall

SpecSlots == Init /\ [][NextSlots]_vars

(***************************************************************************)
(* Claims: Credential Builder.                                             *)
(***************************************************************************)
IsEnabledGoogle(dwd) ==
  dwd # NoDwd /\ dwd.enabled /\ dwd.workspacePlatform.slug = "google"

\* creds is one calendar and one conferencing credential of dwd for user.
OneCalendarOneConferencing(creds, dwd, user) ==
  /\ Len(creds) = 2
  /\ Cardinality({i \in 1..Len(creds) : _isCalendarCredential(creds[i])}) = 1
  /\ Cardinality({i \in 1..Len(creds) : _isConferencingCredential(creds[i])}) = 1
  /\ \A i \in 1..Len(creds) :
       /\ creds[i].delegatedToId = Str(dwd.id)
       /\ creds[i].userId = user.id
       /\ creds[i].user.email = user.email

SingleUserOps == {"getAllDwdCredentialsForUser", "findDwdCredentials"}
BatchOps == {"enrichUsersWithDwdCredentials", "enrichHostsWithDwdCredentials"}

\* The users of the batch an enrichment call was given.
BatchUsers ==
  IF op = "enrichUsersWithDwdCredentials" THEN args.users
  ELSE [i \in 1..Len(args.hosts) |-> args.hosts[i].user]

\* C1: for an enabled "google" configuration the builder returns exactly two
\* credentials, one calendar and one conferencing, each with delegatedToId
\* the configuration's id and userId/email the user's; on the single-user
\* paths for the user given, on the batch path for every user of the batch.
C1_EnabledGoogleBuildsCalendarAndConferencing ==
  /\ (op \in SingleUserOps /\ IsEnabledGoogle(args.dwd) /\ args.user # NoUser)
       => /\ out.status = "returned"
          /\ OneCalendarOneConferencing(out.value, args.dwd, args.user)
  /\ (op \in BatchOps /\ IsEnabledGoogle(args.dwd) /\ Truthy(args.orgId)
        /\ BatchUsers # <<>>)
       => /\ dwdMap.status = "returned"
          /\ \A i \in 1..Len(BatchUsers) :
               /\ BatchUsers[i].id \in DOMAIN dwdMap.value
               /\ OneCalendarOneConferencing(dwdMap.value[BatchUsers[i].id],
                                             args.dwd, BatchUsers[i])

C1_Witness ==
  \/ /\ op = "findDwdCredentials" /\ IsEnabledGoogle(args.dwd) /\ args.user # NoUser
     /\ Len(out.value) = 2
  \/ /\ op = "enrichHostsWithDwdCredentials" /\ IsEnabledGoogle(args.dwd)
     /\ Truthy(args.orgId) /\ Len(args.hosts) = 2
     /\ args.hosts[1].user.id # args.hosts[2].user.id
     /\ Len(dwdMap.value[2]) = 2

\* C2: the builder returns an empty list, and does not throw, when the
\* configuration is null, disabled or of a platform other than "google".
C2_NoCredentialsWithoutEnabledGoogle ==
  /\ (op \in SingleUserOps /\ ~IsEnabledGoogle(args.dwd))
       => out = Returned(<<>>)
  /\ (op \in BatchOps /\ ~IsEnabledGoogle(args.dwd) /\ dwdMap.status = "returned")
       => \A i \in 1..Len(BatchUsers) :
            MapGetOrEmpty(dwdMap.value, BatchUsers[i].id) = <<>>
  /\ (op = "enrichUserWithDwdCredentialsWithoutOrgId" /\ ~IsEnabledGoogle(args.dwd))
       => \A i \in 1..Len(out.value.credentials) :
            ~Truthy(out.value.credentials[i].delegatedToId)

C2_Witness ==
  /\ op = "getAllDwdCredentialsForUser"
  /\ args.dwd # NoDwd /\ args.dwd.enabled
  /\ args.dwd.workspacePlatform.slug = "office365"
  /\ out = Returned(<<>>)

(***************************************************************************)
(* Claims: Credential Merger.                                              *)
(***************************************************************************)
MergeOps == {"buildAllCredentials", "mergeAgain", "mergeTwiceOver"}

IsDelegated(c) == c.delegatedToId # JsNull /\ c.delegatedToId # JsUndefined

SameKey(c, d) == c.delegatedToId = d.delegatedToId /\ c.appId = d.appId

\* C3: the merged list never holds two delegated credentials with the same
\* delegation id and app identifier, and of several such inputs the one
\* retained is the first of the delegated list.
C3_NoDuplicateDelegatedFirstWins ==
  op \in MergeOps =>
    LET D == args.dwdCredentials
        R == out.value
    IN /\ \A i, j \in 1..Len(R) :
            (i # j /\ IsDelegated(R[i]) /\ IsDelegated(R[j])) => ~SameKey(R[i], R[j])
       /\ \A i \in 1..Len(D) :
            IsDelegated(D[i]) =>
              LET first == MinOf({j \in 1..Len(D) : SameKey(D[j], D[i])})
              IN \E k \in 1..Len(R) : R[k] = D[first]

C3_Witness ==
  /\ op = "buildAllCredentials"
  /\ Len(args.dwdCredentials) = 2
  /\ SameKey(args.dwdCredentials[1], args.dwdCredentials[2])
  /\ args.dwdCredentials[1] # args.dwdCredentials[2]
  /\ \E k \in 1..Len(out.value) : out.value[k] = args.dwdCredentials[1]
  /\ \A k \in 1..Len(out.value) : out.value[k] # args.dwdCredentials[2]

\* The stored credentials whose id is not flagged, in input order.
Unflagged(S) ==
  LET keep(c) == ~isDwdCredential(c.id) IN SelectSeq(S, keep)

\* o is c with a null delegation back-reference.
NormalizedFrom(o, c) ==
  /\ o.delegatedToId = JsNull
  /\ \A f \in DOMAIN c \ {"delegatedToId", "delegatedTo"} : o[f] = c[f]

\* C4: every stored credential whose id is not flagged as a delegated
\* credential's is in the merged list, once per occurrence, normalized to a
\* null back-reference, in input order and after everything that came from
\* the delegated list.
C4_StoredCredentialsSurviveInOrder ==
  op = "buildAllCredentials" =>
    LET S == Unflagged(args.existingCredentials)
        R == out.value
        n == Len(R) - Len(S)
    IN /\ n >= 0
       /\ \A i \in 1..Len(S) : NormalizedFrom(R[n + i], S[i])
       /\ \A k \in 1..n : \E j \in 1..Len(args.dwdCredentials) :
            R[k] = args.dwdCredentials[j]

C4_Witness ==
  /\ op = "buildAllCredentials"
  /\ Len(args.dwdCredentials) = 2
  /\ Len(args.existingCredentials) = 2
  /\ args.existingCredentials[1].id = 3
  /\ args.existingCredentials[2].id = 3
  /\ SameKey(args.dwdCredentials[1], args.existingCredentials[1])
  /\ Len(out.value) = 4

\* C5: merging is idempotent: merging the same delegated list into the
\* result of a merge, and supplying the delegated list twice over, both give
\* the list the first merge gave.
C5_MergeIdempotent ==
  op \in {"mergeAgain", "mergeTwiceOver"} => out.value = args.first

C5_Witness ==
  /\ op = "mergeAgain"
  /\ Len(args.first) = 4
  /\ \E i \in 1..4 : isDwdCredential(args.first[i].id)
  /\ out.value = args.first

(***************************************************************************)
(* Claims: lookup utilities.                                               *)
(***************************************************************************)
LookupOps == {"getDwdOrFindRegularCredential", "getDwdOrRegularCredential"}

Supplied(v) == v # JsNull /\ v # JsUndefined

IsCredential(v) == v[1] = "object"

\* C6: both lookups return null when neither id is supplied; a delegated
\* credential is returned only for the delegation id that equals its
\* back-reference, a stored one only for the numeric id that equals its id.
C6_LookupNeverConflatesIds ==
  op \in LookupOps =>
    /\ (~Supplied(args.credentialId) /\ ~Supplied(args.dwdId)) => out.value = JsNull
    /\ IsCredential(out.value) =>
         LET c == out.value[2]
         IN IF IsDelegated(c)
            THEN Supplied(args.dwdId) /\ c.delegatedToId = args.dwdId
            ELSE Supplied(args.credentialId) /\ Num(c.id) = args.credentialId

C6_Witness ==
  /\ op = "getDwdOrRegularCredential"
  /\ args.credentialId = Num(-1)
  /\ args.dwdId = JsNull
  /\ \E i \in 1..Len(args.credentials) : args.credentials[i].id = -1
  /\ \E i \in 1..Len(args.credentials) : args.credentials[i].delegatedToId = JsNull
  /\ out.value = JsNull

\* C7: in both lookups, when a delegation id is supplied the result is a
\* delegated credential with that back-reference or not-found, never a
\* stored credential.
C7_DelegationIdSearchesOnlyDelegated ==
  (op \in LookupOps /\ Supplied(args.dwdId)) =>
    \/ ~IsCredential(out.value)
    \/ /\ IsDelegated(out.value[2])
       /\ out.value[2].delegatedToId = args.dwdId

(***************************************************************************)
(* Claims: enrichment.                                                     *)
(***************************************************************************)
\* The delegated credentials user u is due in the call that ran.
DelegatedFor(u) ==
  IF op \in BatchOps /\ ~Truthy(args.orgId) THEN <<>>
  ELSE _buildDwdCredentials(args.dwd, [id |-> u.id, email |-> u.email])

\* o is u with its credentials replaced by the merge of u's own delegated
\* and stored credentials, and nothing else changed.
EnrichedFrom(o, u) ==
  /\ DOMAIN o = DOMAIN u
  /\ \A f \in DOMAIN u \ {"credentials"} : o[f] = u[f]
  /\ o.credentials = buildAllCredentials(DelegatedFor(u), u.credentials)

\* C8: an enrichment that returns gives one record per input record, in
\* input order, equal to its input in every field but credentials (for a
\* host: in every field but user, and the user in every field but
\* credentials), and leaves the records it was given as they were.
C8_EnrichmentChangesOnlyCredentials ==
  /\ (op = "enrichUsersWithDwdCredentials" /\ out.status = "returned") =>
       /\ Len(out.value) = Len(args.users)
       /\ \A i \in 1..Len(args.users) : EnrichedFrom(out.value[i], args.users[i])
       /\ inputs = args.users
  /\ (op = "enrichHostsWithDwdCredentials" /\ out.status = "returned") =>
       /\ Len(out.value) = Len(args.hosts)
       /\ \A i \in 1..Len(args.hosts) :
            /\ DOMAIN out.value[i] = DOMAIN args.hosts[i]
            /\ \A f \in DOMAIN args.hosts[i] \ {"user"} :
                 out.value[i][f] = args.hosts[i][f]
            /\ EnrichedFrom(out.value[i].user, args.hosts[i].user)
       /\ inputs = args.hosts
  /\ op = "enrichUserWithDwdCredentialsWithoutOrgId" =>
       /\ out.status = "returned"
       /\ EnrichedFrom(out.value, args.user)
       /\ inputs = args.user

C8_Witness ==
  /\ op = "enrichHostsWithDwdCredentials"
  /\ out.status = "returned"
  /\ Len(args.hosts) = 2
  /\ args.hosts[1].user.id # args.hosts[2].user.id
  /\ out.value[1].user.credentials # args.hosts[1].user.credentials
  /\ out.value[2].user.credentials # args.hosts[2].user.credentials
  /\ out.value[1].user.credentials # out.value[2].user.credentials

(***************************************************************************)
(* Claims: CSRF verification.                                              *)
(***************************************************************************)
\* The cookie of that name in the request verify was given; <<>> when the
\* request has none.
RequestCookie(name) ==
  IF args.header = JsUndefined \/ name \notin DOMAIN parse(args.header[2]) THEN <<>>
  ELSE parse(args.header[2])[name]

HasRequestCookie(name) ==
  args.header # JsUndefined /\ name \in DOMAIN parse(args.header[2])

\* signed is some payload, ".", and the HMAC of that payload under the
\* server's secret.
SignedPayloads(signed) ==
  {i \in 1..Len(signed) :
     /\ signed[i] = "."
     /\ SubSeq(signed, i + 1, Len(signed))
          = <<hmac(SubSeq(signed, 1, i - 1), ServerSecret)>>}

SignatureVerifies(signed) == SignedPayloads(signed) # {}

PayloadOf(signed) == SubSeq(signed, 1, MinOf(SignedPayloads(signed)) - 1)

\* token is a salt, "-", and the hash of that salt with the secret.
SaltHashMatches(secret, token) ==
  \E i \in 1..Len(token) :
    /\ token[i] = "-"
    /\ \A j \in 1..(i - 1) : token[j] # "-"
    /\ SubSeq(token, i + 1, Len(token))
         = <<hash(SubSeq(token, 1, i - 1) \o <<"-">> \o secret)>>

VerifyMustReject ==
  \/ args.header = JsUndefined
  \/ ~SignatureVerifies(RequestCookie(tokenCookieName))
  \/ ~HasRequestCookie(secretCookieName)
  \/ ~SaltHashMatches(RequestCookie(secretCookieName),
                      PayloadOf(RequestCookie(tokenCookieName)))

\* C9: verify throws InvalidCSRFError (403) and sets no cookie when the
\* request has no cookie header, when the token's signature does not verify,
\* and when the hash recomputed from the token's salt and the secret cookie
\* is not the token's hash; otherwise it succeeds and sets only the
\* XSRF-TOKEN cookie, to a token that verifies against the same secret.
C9_VerifyRejectsOrRotates ==
  op = "verify" =>
    IF VerifyMustReject
    THEN out = Threw(InvalidCSRFError) /\ res = Returned(<<>>)
    ELSE /\ out.status = "returned"
         /\ Len(res.value) = 1
         /\ res.value[1][1] = tokenCookieName
         /\ SignatureVerifies(res.value[1][2])
         /\ SaltHashMatches(RequestCookie(secretCookieName), PayloadOf(res.value[1][2]))

\* A token the server signed, sent with another secret than its own.
C9_Witness ==
  /\ op = "verify"
  /\ HasRequestCookie(secretCookieName)
  /\ SignatureVerifies(RequestCookie(tokenCookieName))
  /\ ~SaltHashMatches(RequestCookie(secretCookieName),
                      PayloadOf(RequestCookie(tokenCookieName)))
  /\ out = Threw(InvalidCSRFError)
  /\ res = Returned(<<>>)

(***************************************************************************)
(* Claims: internal notes.                                                 *)
(***************************************************************************)
MayWrite ==
  \/ \E i \in 1..Len(args.booking.eventType.hosts) :
       args.booking.eventType.hosts[i].user.id = args.userId
  \/ /\ args.booking.eventType.owner[1] = "object"
     /\ args.booking.eventType.owner[2].id = Num(args.userId)

\* A preset with that id exists for the team given; when no team is given
\* (teamId undefined) the query has no team condition.
PresetExists ==
  \E row \in PresetTable :
    /\ row.id = args.internalNote.id
    /\ args.teamId # JsUndefined => Num(row.teamId) = args.teamId

CreatedOne(row) == notes = Append(args.notesBefore, row) /\ out = Returned(row)

\* C10: a user who is neither a host nor the owner gets Forbidden before any
\* lookup or write; otherwise id -1 creates a freeform note with the note's
\* value as text and no preset, without a preset lookup, and any other id
\* creates a note referencing the preset when a preset with that id exists
\* for the team, and else fails with Not-Found creating no note.
C10_InternalNote ==
  op = "handleInternalNote" =>
    IF ~MayWrite
    THEN /\ out.status = "threw" /\ out.value.statusCode = 403
         /\ dbLog = <<>> /\ notes = args.notesBefore
    ELSE IF args.internalNote.id = -1
    THEN /\ CreatedOne([bookingId |-> args.booking.id, text |-> args.internalNote.value,
                        notePresetId |-> JsNull, createdBy |-> args.userId])
         /\ dbLog = <<"bookingInternalNote.create">>
    ELSE IF PresetExists
    THEN /\ CreatedOne([bookingId |-> args.booking.id, text |-> JsUndefined,
                        notePresetId |-> Num(args.internalNote.id),
                        createdBy |-> args.userId])
         /\ dbLog = <<"internalNotePreset.findFirstOrThrow", "bookingInternalNote.create">>
    ELSE /\ out.status = "threw" /\ out.value.name = "NotFoundError"
         /\ notes = args.notesBefore

\* A preset of another team: Not-Found, and the table as it was.
C10_Witness ==
  /\ op = "handleInternalNote"
  /\ MayWrite
  /\ args.internalNote.id = 1
  /\ args.teamId = Num(2)
  /\ args.notesBefore = <<EarlierNote>>
  /\ out.status = "threw" /\ out.value.name = "NotFoundError"
  /\ notes = <<EarlierNote>>


(***************************************************************************)
(* Claims: end-time normalization.                                         *)
(***************************************************************************)
\* The text names a date and a time that exist.
IsIsoTimestamp(text) ==
  /\ text.month \in 1..12
  /\ text.day \in 1..DaysInMonth(text.year, text.month)
  /\ text.hour \in 0..23 /\ text.minute \in 0..59 /\ text.second \in 0..59

\* The instant a valid ISO text names: whole seconds since the epoch, and
\* the milliseconds past them.
EpochSecondOf(text) ==
  ((DaysFromCivil(text.year, text.month, text.day) * 24 + text.hour) * 60
      + text.minute - text.offset) * 60 + text.second

InstantOf(text) == <<EpochSecondOf(text), text.millisecond>>

\* The instant's calendar date and time of day in UTC.
UtcDayOf(text) == EpochSecondOf(text) \div (24 * 60 * 60)
UtcSecondOfDayOf(text) == EpochSecondOf(text) % (24 * 60 * 60)

\* C11: for every ISO end timestamp read as a UTC instant, adjustEndTime
\* returns 23:59:59 of the same UTC date when the time of day is midnight
\* (00:00:00), and the same instant for every other time of day; the UTC
\* date never changes.
C11_MidnightBecomesEndOfDay ==
  (op = "adjustEndTime" /\ IsIsoTimestamp(args.endTime)) =>
    /\ out.status = "returned"
    /\ out.value[1] = "string"
    /\ IsIsoTimestamp(out.value[2])
    /\ UtcDayOf(out.value[2]) = UtcDayOf(args.endTime)
    /\ IF UtcSecondOfDayOf(args.endTime) = 0
       THEN UtcSecondOfDayOf(out.value[2]) = (23 * 60 + 59) * 60 + 59
       ELSE InstantOf(out.value[2]) = InstantOf(args.endTime)

\* A text with an offset whose instant is midnight in UTC, on a leap day.
C11_Witness ==
  /\ op = "adjustEndTime"
  /\ args.endTime = IsoText(2024, 2, 29, 2, 0, 0, 0, "offset", 120)
  /\ out = Returned(Str(IsoText(2024, 2, 29, 23, 59, 59, 0, "Z", 0)))


(***************************************************************************)
(* Claims: batch resolution.                                               *)
(***************************************************************************)
\* No delegation applies to the batch: no organization, no configuration
\* for the organization and domain, or a disabled one.
NoDelegationApplies ==
  ~Truthy(args.orgId) \/ args.dwd = NoDwd \/ ~args.dwd.enabled

\* The credentials of the i-th record a batch enrichment returned.
ResultCredentials(i) ==
  IF op = "enrichUsersWithDwdCredentials" THEN out.value[i].credentials
  ELSE out.value[i].user.credentials

\* Every result holds its user's surviving stored credentials, normalized
\* and in order, and no delegated credential.
DegradesToStored ==
  \A i \in 1..Len(BatchUsers) :
    LET stored == Unflagged(BatchUsers[i].credentials)
        got == ResultCredentials(i)
    IN /\ Len(got) = Len(stored)
       /\ \A k \in 1..Len(got) : NormalizedFrom(got[k], stored[k]) /\ ~IsDelegated(got[k])

\* C12: a batch enrichment of any batch, the empty one included, under any
\* organization id completes and returns one record per input, and when no
\* delegation applies every record holds exactly its user's surviving stored
\* credentials and no delegated credential.
C12_BatchNeverAborts ==
  op \in BatchOps =>
    /\ out.status = "returned"
    /\ Len(out.value) = Len(BatchUsers)
    /\ NoDelegationApplies => DegradesToStored

\* What the code does keep of C12: every batch but the empty one under an
\* organization id completes, with one record per input, degraded to the
\* stored credentials when no delegation applies.
BatchCompletesUnlessEmptyWithOrg ==
  op \in BatchOps =>
    IF Truthy(args.orgId) /\ BatchUsers = <<>>
    THEN out = Threw("TypeError")
    ELSE /\ out.status = "returned"
         /\ Len(out.value) = Len(BatchUsers)
         /\ NoDelegationApplies => DegradesToStored


(***************************************************************************)
(* Claims: CSRF setup.                                                     *)
(***************************************************************************)
\* The cookies the last response set, name to value.
ResponseCookies == parse(res.value)

\* C13: when the browser's request carries the csrfSecret cookie setup gave
\* it, setup writes a csrfSecret cookie of the same value and a token derived
\* from it; so whatever setup and verify calls the browser makes, the secret
\* it holds stays the one first issued.
C13_SetupReusesSecret ==
  /\ (op = "setup" /\ args.who = "browser" /\ HasRequestCookie(secretCookieName)) =>
       /\ ResponseCookies[secretCookieName] = RequestCookie(secretCookieName)
       /\ SignatureVerifies(ResponseCookies[tokenCookieName])
       /\ SaltHashMatches(RequestCookie(secretCookieName),
                          PayloadOf(ResponseCookies[tokenCookieName]))
  /\ issued # JsNull => jar[secretCookieName] = issued[2]

====
